---- MODULE Spec2Model ----
(***************************************************************************)
(* Sarah's Reward Tracker (server.js): the five tables, the six request    *)
(* handlers and the week helper.  A request is a process whose steps are   *)
(* its storage calls (one step per `await pool.query`), so requests can be *)
(* run one at a time or interleaved at every storage call.                 *)
(*                                                                         *)
(* Dates are day numbers; day 0 is a Monday, so day d is a Monday iff      *)
(* d % 7 = 0 and a Sunday iff d % 7 = 6.  A "YYYY-MM-DD" string is the day *)
(* number it names.                                                        *)
(***************************************************************************)
EXTENDS Integers, FiniteSets, Sequences, Bags, TLC

(* ---------------------------- bounds ---------------------------------- *)
NumProcs == 2          \* request slots that can be in flight together
MaxRequests == 3       \* requests started in one behaviour
MaxTxId == 2           \* ids a delete request may name beyond those issued

Procs == 1..NumProcs
DateInputs == {7, 8}                \* a Monday and the Tuesday after it
MinuteInputs == {100, 150}
ScoreInputs == {0, 94, 95}
MaxScoreInputs == {0, 100}
SubjectInputs == {"Math"}
Undefined == "<undefined>"          \* a body field that is absent
NoteInputs == {Undefined, "", "meltdown"}
TimeZones == {-1, 0, 1}             \* sign of the server's UTC offset (process TZ)

(* ------------------------- program constants -------------------------- *)
PianoGoal == 150
PianoReward == 50
TestReward == 100
IncidentPenalty == -50
TestThreshold == 95

VARIABLES
    tz,              \* sign of the UTC offset of the node process
    piano_sessions,  \* bag of [date, minutes]
    weekly_awards,   \* bag of week_start values (UNIQUE is enforced on insert)
    tests,           \* bag of [date, subject, score, max_score, awarded]
    incidents,       \* bag of [date, note]
    transactions,    \* set of [id, date, type, amount, description]
    nextTxId,        \* the SERIAL sequence of transactions.id
    req,             \* per slot: the request in flight, its position and locals
    resp,            \* per slot: the response sent by the last request
    pre,             \* per slot: the tables as they were when the request started
    started          \* requests started so far

vars == <<tz, piano_sessions, weekly_awards, tests, incidents, transactions,
          nextTxId, req, resp, pre, started>>
tables == <<piano_sessions, weekly_awards, tests, incidents, transactions>>

NoReq == [op |-> "none", pc |-> "idle"]
NoResp == [status |-> 0]
NoSnap == [taken |-> FALSE]
Snapshot == [taken |-> TRUE, piano_sessions |-> piano_sessions,
             weekly_awards |-> weekly_awards, tests |-> tests,
             incidents |-> incidents, transactions |-> transactions]

(* ------------------------------ dates --------------------------------- *)
\* A JS Date is an instant; what the code reads of it is its calendar day in
\* the process's local time (getDay, getDate, setDate) and its calendar day
\* in UTC (toISOString).  Both are kept.
\* new Date("YYYY-MM-DD"): midnight UTC of that day, which west of UTC is
\* still the evening of the day before.
DateFromString(s) == [utc |-> s, local |-> IF tz < 0 THEN s - 1 ELSE s]

\* A DATE column as node-postgres hands it over: a Date at local midnight of
\* that day, which east of UTC is still the day before in UTC.
DateFromColumn(s) == [local |-> s, utc |-> IF tz > 0 THEN s - 1 ELSE s]

\* Date.prototype.getDay(): 0 = Sunday .. 6 = Saturday, in local time.
getDay(d) == (d.local + 1) % 7

\* Date.prototype.setDate(n) relative to the current day of month: the local
\* calendar day moves, the local time of day stays.
setDate(d, delta) == [local |-> d.local + delta, utc |-> d.utc + delta]

\* toISOString().split('T')[0]
toISODate(d) == d.utc

\* getWeekStart: the day of the week is read in local time, the result is
\* printed in UTC.
getWeekStart(d) ==
    LET day == getDay(d)
        diff == 0 - day + (IF day = 0 THEN -6 ELSE 1)
    IN toISODate(setDate(d, diff))

\* weekEnd = new Date(weekStart); weekEnd.setDate(weekEnd.getDate() + 6)
getWeekEnd(weekStart) == toISODate(setDate(DateFromString(weekStart), 6))

(* ----------------------------- queries -------------------------------- *)
RECURSIVE SumOver(_, _)
SumOver(S, B) ==
    IF S = {} THEN 0
    ELSE LET e == CHOOSE x \in S : TRUE
         IN e.minutes * CopiesIn(e, B) + SumOver(S \ {e}, B)

WeekMinutesAfterStart(lo, hi) ==
    SumOver({e \in BagToSet(piano_sessions) : e.date > lo /\ e.date <= hi},
            piano_sessions)

\* SELECT COALESCE(SUM(minutes), 0) FROM piano_sessions WHERE date >= $1 AND date <= $2
WeekMinutes(lo, hi) ==
    SumOver({e \in BagToSet(piano_sessions) : e.date >= lo /\ e.date <= hi},
            piano_sessions)

RECURSIVE SumAmounts(_)
SumAmounts(T) ==
    IF T = {} THEN 0
    ELSE LET t == CHOOSE x \in T : TRUE IN t.amount + SumAmounts(T \ {t})

BagAdd(B, e) == B (+) SetToBag({e})
BagRemoveAll(B, e) == [x \in (DOMAIN B) \ {e} |-> B[x]]

Description(text, numbers, str) == <<text, numbers, str>>

InsertTransaction(date, type, amount, description) ==
    /\ transactions' = transactions \cup
           {[id |-> nextTxId, date |-> date, type |-> type, amount |-> amount,
             description |-> description]}
    /\ nextTxId' = nextTxId + 1

(* ---------------------------- test rule ------------------------------- *)
\* (score / maxScore) * 100 in IEEE doubles: a division by zero does not
\* throw, it yields Infinity, -Infinity or NaN.  For the integer inputs used
\* here the finite quotient compares with 95 exactly as the rational does.
Percentage(score, maxScore) ==
    IF maxScore # 0 THEN [kind |-> "finite", num |-> 100 * score, den |-> maxScore]
    ELSE IF score > 0 THEN [kind |-> "Infinity", num |-> 0, den |-> 0]
    ELSE IF score < 0 THEN [kind |-> "-Infinity", num |-> 0, den |-> 0]
    ELSE [kind |-> "NaN", num |-> 0, den |-> 0]

TestAwardedStrict(p) ==
    IF p.kind = "finite"
    THEN IF p.den > 0 THEN p.num > TestThreshold * p.den
                      ELSE p.num < TestThreshold * p.den
    ELSE p.kind = "Infinity"

\* percentage >= 95
TestAwarded(p) ==
    IF p.kind = "finite"
    THEN IF p.den > 0 THEN p.num >= TestThreshold * p.den
                      ELSE p.num <= TestThreshold * p.den
    ELSE p.kind = "Infinity"

\* percentage.toFixed(0): nearest integer, halves up (non-negative finite
\* values); the non-finite values print as their names.
ToFixed0(p) ==
    IF p.kind = "finite" /\ p.den > 0 /\ p.num >= 0
    THEN [kind |-> "finite", n |-> (2 * p.num + p.den) \div (2 * p.den)]
    ELSE [kind |-> p.kind, n |-> 0]

(* --------------------------- request life ----------------------------- *)
Idle(p) == req[p].pc \in {"idle", "done"}

Begin(p, r) ==
    /\ Idle(p)
    /\ started < MaxRequests
    /\ started' = started + 1
    /\ req' = [req EXCEPT ![p] = r]
    /\ resp' = [resp EXCEPT ![p] = NoResp]

Respond(p, r) ==
    /\ req' = [req EXCEPT ![p].pc = "done"]
    /\ resp' = [resp EXCEPT ![p] = r]

Goto(p, r) ==
    /\ req' = [req EXCEPT ![p] = r]
    /\ resp' = resp

(* ------------------------- POST /api/piano ---------------------------- *)
PianoStart(p) ==
    \E date \in DateInputs, minutes \in MinuteInputs :
        /\ Begin(p, [op |-> "piano", pc |-> "insert_session", date |-> date,
                     minutes |-> minutes])
        /\ UNCHANGED <<tz, tables, nextTxId>>

PianoInsertSession(p) ==
    /\ req[p].op = "piano" /\ req[p].pc = "insert_session"
    /\ piano_sessions' = BagAdd(piano_sessions,
                                [date |-> req[p].date, minutes |-> req[p].minutes])
    /\ LET weekStart == getWeekStart(DateFromString(req[p].date))
       IN Goto(p, [op |-> "piano", pc |-> "sum_minutes", date |-> req[p].date,
                   minutes |-> req[p].minutes, weekStart |-> weekStart,
                   weekEnd |-> getWeekEnd(weekStart)])
    /\ UNCHANGED <<tz, weekly_awards, tests, incidents, transactions, nextTxId,
                   pre, started>>

PianoSumMinutes(p) ==
    /\ req[p].op = "piano" /\ req[p].pc = "sum_minutes"
    /\ Goto(p, [op |-> "piano", pc |-> "award_check", date |-> req[p].date,
                minutes |-> req[p].minutes, weekStart |-> req[p].weekStart,
                weekEnd |-> req[p].weekEnd,
                weekMinutes |-> WeekMinutes(req[p].weekStart, req[p].weekEnd)])
    /\ UNCHANGED <<tz, tables, nextTxId, pre, started>>

PianoAwardCheckStrict(p) ==
    /\ req[p].op = "piano" /\ req[p].pc = "award_check"
    /\ LET awardCheck == CopiesIn(req[p].weekStart, weekly_awards)
       IN IF req[p].weekMinutes > PianoGoal /\ awardCheck = 0
          THEN Goto(p, [req[p] EXCEPT !.pc = "insert_award"])
          ELSE Respond(p, [status |-> 200, success |-> TRUE, awarded |-> FALSE,
                           weekMinutes |-> req[p].weekMinutes])
    /\ UNCHANGED <<tz, tables, nextTxId, pre, started>>

\* SELECT * FROM weekly_awards WHERE week_start = $1, then the decision
PianoAwardCheck(p) ==
    /\ req[p].op = "piano" /\ req[p].pc = "award_check"
    /\ LET awardCheck == CopiesIn(req[p].weekStart, weekly_awards)
       IN IF req[p].weekMinutes >= PianoGoal /\ awardCheck = 0
          THEN Goto(p, [req[p] EXCEPT !.pc = "insert_award"])
          ELSE Respond(p, [status |-> 200, success |-> TRUE, awarded |-> FALSE,
                           weekMinutes |-> req[p].weekMinutes])
    /\ UNCHANGED <<tz, tables, nextTxId, pre, started>>

PianoInsertAwardSwallowed(p) ==
    /\ req[p].op = "piano" /\ req[p].pc = "insert_award"
    /\ weekly_awards' = IF BagIn(req[p].weekStart, weekly_awards)
                        THEN weekly_awards
                        ELSE BagAdd(weekly_awards, req[p].weekStart)
    /\ Goto(p, [req[p] EXCEPT !.pc = "insert_tx"])
    /\ UNCHANGED <<tz, piano_sessions, tests, incidents, transactions, nextTxId,
                   pre, started>>

PianoInsertAwardNoUnique(p) ==
    /\ req[p].op = "piano" /\ req[p].pc = "insert_award"
    /\ weekly_awards' = BagAdd(weekly_awards, req[p].weekStart)
    /\ Goto(p, [req[p] EXCEPT !.pc = "insert_tx"])
    /\ UNCHANGED <<tz, piano_sessions, tests, incidents, transactions, nextTxId,
                   pre, started>>

\* INSERT INTO weekly_awards: week_start is UNIQUE, a second row for the week
\* is rejected and the handler's catch answers 500.
PianoInsertAward(p) ==
    /\ req[p].op = "piano" /\ req[p].pc = "insert_award"
    /\ IF BagIn(req[p].weekStart, weekly_awards)
       THEN /\ Respond(p, [status |-> 500, error |-> "Failed to log piano session"])
            /\ UNCHANGED weekly_awards
       ELSE /\ weekly_awards' = BagAdd(weekly_awards, req[p].weekStart)
            /\ Goto(p, [req[p] EXCEPT !.pc = "insert_tx"])
    /\ UNCHANGED <<tz, piano_sessions, tests, incidents, transactions, nextTxId,
                   pre, started>>

PianoInsertTx(p) ==
    /\ req[p].op = "piano" /\ req[p].pc = "insert_tx"
    /\ InsertTransaction(req[p].date, "piano", PianoReward,
           Description("Weekly piano goal met!", <<req[p].weekMinutes>>, ""))
    /\ Respond(p, [status |-> 200, success |-> TRUE, awarded |-> TRUE,
                   weekMinutes |-> req[p].weekMinutes])
    /\ UNCHANGED <<tz, piano_sessions, weekly_awards, tests, incidents, pre, started>>

(* -------------------------- POST /api/test ---------------------------- *)
TestStart(p) ==
    \E date \in DateInputs, subject \in SubjectInputs,
       score \in ScoreInputs, maxScore \in MaxScoreInputs :
        /\ Begin(p, [op |-> "test", pc |-> "insert_test", date |-> date,
                     subject |-> subject, score |-> score, maxScore |-> maxScore,
                     percentage |-> Percentage(score, maxScore),
                     awarded |-> TestAwarded(Percentage(score, maxScore))])
        /\ UNCHANGED <<tz, tables, nextTxId>>

TestInsertTest(p) ==
    /\ req[p].op = "test" /\ req[p].pc = "insert_test"
    /\ tests' = BagAdd(tests, [date |-> req[p].date, subject |-> req[p].subject,
                               score |-> req[p].score, max_score |-> req[p].maxScore,
                               awarded |-> req[p].awarded])
    /\ IF req[p].awarded
       THEN Goto(p, [req[p] EXCEPT !.pc = "insert_tx"])
       ELSE Respond(p, [status |-> 200, success |-> TRUE, awarded |-> FALSE,
                        percentage |-> req[p].percentage])
    /\ UNCHANGED <<tz, piano_sessions, weekly_awards, incidents, transactions,
                   nextTxId, pre, started>>

TestInsertTx(p) ==
    /\ req[p].op = "test" /\ req[p].pc = "insert_tx"
    /\ InsertTransaction(req[p].date, "test", TestReward,
           Description("test", <<req[p].score, req[p].maxScore,
                                 ToFixed0(req[p].percentage)>>, req[p].subject))
    /\ Respond(p, [status |-> 200, success |-> TRUE, awarded |-> TRUE,
                   percentage |-> req[p].percentage])
    /\ UNCHANGED <<tz, piano_sessions, weekly_awards, tests, incidents, pre, started>>

(* ------------------------ POST /api/incident -------------------------- *)
\* JS truthiness of the note: undefined and "" are falsy.
Truthy(note) == note # Undefined /\ note # ""

IncidentDescriptionNoNote(note) == Description("Crying incident", <<>>, "")

\* note ? `Incident: ${note}` : 'Crying incident'
IncidentDescription(note) ==
    IF Truthy(note) THEN Description("Incident: ", <<>>, note)
    ELSE Description("Crying incident", <<>>, "")

IncidentStart(p) ==
    \E date \in DateInputs, note \in NoteInputs :
        /\ Begin(p, [op |-> "incident", pc |-> "insert_incident", date |-> date,
                     note |-> note])
        /\ UNCHANGED <<tz, tables, nextTxId>>

IncidentInsertIncident(p) ==
    /\ req[p].op = "incident" /\ req[p].pc = "insert_incident"
    /\ incidents' = BagAdd(incidents,
           [date |-> req[p].date,
            note |-> IF Truthy(req[p].note) THEN req[p].note ELSE ""])
    /\ Goto(p, [req[p] EXCEPT !.pc = "insert_tx"])
    /\ UNCHANGED <<tz, piano_sessions, weekly_awards, tests, transactions,
                   nextTxId, pre, started>>

IncidentInsertTx(p) ==
    /\ req[p].op = "incident" /\ req[p].pc = "insert_tx"
    /\ InsertTransaction(req[p].date, "incident", IncidentPenalty,
                         IncidentDescription(req[p].note))
    /\ Respond(p, [status |-> 200, success |-> TRUE])
    /\ UNCHANGED <<tz, piano_sessions, weekly_awards, tests, incidents, pre, started>>

(* -------------------- DELETE /api/transaction/:id --------------------- *)
IdInputs == 1..MaxTxId

DeleteStart(p) ==
    \E id \in IdInputs :
        /\ Begin(p, [op |-> "delete", pc |-> "select_tx", id |-> id])
        /\ UNCHANGED <<tz, tables, nextTxId>>

DeleteSelectTxNoCheck(p) ==
    /\ req[p].op = "delete" /\ req[p].pc = "select_tx"
    /\ Goto(p, [op |-> "delete", pc |-> "delete_tx", id |-> req[p].id])
    /\ UNCHANGED <<tz, tables, nextTxId, pre, started>>

\* SELECT * FROM transactions WHERE id = $1, the 404 and the piano test
DeleteSelectTx(p) ==
    /\ req[p].op = "delete" /\ req[p].pc = "select_tx"
    /\ LET rows == {t \in transactions : t.id = req[p].id}
       IN IF rows = {}
          THEN Respond(p, [status |-> 404, error |-> "Transaction not found"])
          ELSE LET tx == CHOOSE t \in rows : TRUE
               IN IF tx.type = "piano" /\ tx.amount > 0
                  THEN Goto(p, [op |-> "delete", pc |-> "delete_award",
                                id |-> req[p].id,
                                weekStart |-> getWeekStart(DateFromColumn(tx.date))])
                  ELSE Goto(p, [op |-> "delete", pc |-> "delete_tx",
                                id |-> req[p].id])
    /\ UNCHANGED <<tz, tables, nextTxId, pre, started>>

DeleteDeleteAward(p) ==
    /\ req[p].op = "delete" /\ req[p].pc = "delete_award"
    /\ weekly_awards' = BagRemoveAll(weekly_awards, req[p].weekStart)
    /\ Goto(p, [req[p] EXCEPT !.pc = "delete_tx"])
    /\ UNCHANGED <<tz, piano_sessions, tests, incidents, transactions, nextTxId,
                   pre, started>>

DeleteDeleteTx(p) ==
    /\ req[p].op = "delete" /\ req[p].pc = "delete_tx"
    /\ transactions' = {t \in transactions : t.id # req[p].id}
    /\ Respond(p, [status |-> 200, success |-> TRUE])
    /\ UNCHANGED <<tz, piano_sessions, weekly_awards, tests, incidents, nextTxId,
                   pre, started>>

(* ------------------------- POST /api/reset ---------------------------- *)
ResetStart(p) ==
    /\ Begin(p, [op |-> "reset", pc |-> "delete_transactions"])
    /\ UNCHANGED <<tz, tables, nextTxId>>

ResetTransactions(p) ==
    /\ req[p].op = "reset" /\ req[p].pc = "delete_transactions"
    /\ transactions' = {}
    /\ Goto(p, [req[p] EXCEPT !.pc = "delete_piano_sessions"])
    /\ UNCHANGED <<tz, piano_sessions, weekly_awards, tests, incidents, nextTxId,
                   pre, started>>

ResetPianoSessions(p) ==
    /\ req[p].op = "reset" /\ req[p].pc = "delete_piano_sessions"
    /\ piano_sessions' = EmptyBag
    /\ Goto(p, [req[p] EXCEPT !.pc = "delete_weekly_awards"])
    /\ UNCHANGED <<tz, weekly_awards, tests, incidents, transactions, nextTxId,
                   pre, started>>

ResetWeeklyAwardsSkipped(p) ==
    /\ req[p].op = "reset" /\ req[p].pc = "delete_weekly_awards"
    /\ Goto(p, [req[p] EXCEPT !.pc = "delete_tests"])
    /\ UNCHANGED <<tz, tables, nextTxId, pre, started>>

\* DELETE FROM weekly_awards
ResetWeeklyAwards(p) ==
    /\ req[p].op = "reset" /\ req[p].pc = "delete_weekly_awards"
    /\ weekly_awards' = EmptyBag
    /\ Goto(p, [req[p] EXCEPT !.pc = "delete_tests"])
    /\ UNCHANGED <<tz, piano_sessions, tests, incidents, transactions, nextTxId,
                   pre, started>>

ResetTests(p) ==
    /\ req[p].op = "reset" /\ req[p].pc = "delete_tests"
    /\ tests' = EmptyBag
    /\ Goto(p, [req[p] EXCEPT !.pc = "delete_incidents"])
    /\ UNCHANGED <<tz, piano_sessions, weekly_awards, incidents, transactions,
                   nextTxId, pre, started>>

ResetIncidents(p) ==
    /\ req[p].op = "reset" /\ req[p].pc = "delete_incidents"
    /\ incidents' = EmptyBag
    /\ Respond(p, [status |-> 200, success |-> TRUE])
    /\ UNCHANGED <<tz, piano_sessions, weekly_awards, tests, transactions,
                   nextTxId, pre, started>>

(* --------------------------- GET /api/data ---------------------------- *)
\* The five SELECTs and the SUM are six storage calls; each row set is kept
\* in a local until the response is built.  Rows are kept as the collection
\* read (the ORDER BY of the listing is not modelled).
DataStart(p) ==
    /\ Begin(p, [op |-> "data", pc |-> "select_piano_sessions"])
    /\ UNCHANGED <<tz, tables, nextTxId>>

DataPianoSessions(p) ==
    /\ req[p].op = "data" /\ req[p].pc = "select_piano_sessions"
    /\ Goto(p, [op |-> "data", pc |-> "select_weekly_awards",
                pianoSessions |-> piano_sessions])
    /\ UNCHANGED <<tz, tables, nextTxId, pre, started>>

DataWeeklyAwards(p) ==
    /\ req[p].op = "data" /\ req[p].pc = "select_weekly_awards"
    /\ Goto(p, [op |-> "data", pc |-> "select_tests",
                pianoSessions |-> req[p].pianoSessions,
                weeklyAwards |-> weekly_awards])
    /\ UNCHANGED <<tz, tables, nextTxId, pre, started>>

DataTests(p) ==
    /\ req[p].op = "data" /\ req[p].pc = "select_tests"
    /\ Goto(p, [op |-> "data", pc |-> "select_incidents",
                pianoSessions |-> req[p].pianoSessions,
                weeklyAwards |-> req[p].weeklyAwards, tests |-> tests])
    /\ UNCHANGED <<tz, tables, nextTxId, pre, started>>

DataIncidents(p) ==
    /\ req[p].op = "data" /\ req[p].pc = "select_incidents"
    /\ Goto(p, [op |-> "data", pc |-> "select_transactions",
                pianoSessions |-> req[p].pianoSessions,
                weeklyAwards |-> req[p].weeklyAwards, tests |-> req[p].tests,
                incidents |-> incidents])
    /\ UNCHANGED <<tz, tables, nextTxId, pre, started>>

DataTransactions(p) ==
    /\ req[p].op = "data" /\ req[p].pc = "select_transactions"
    /\ Goto(p, [op |-> "data", pc |-> "select_balance",
                pianoSessions |-> req[p].pianoSessions,
                weeklyAwards |-> req[p].weeklyAwards, tests |-> req[p].tests,
                incidents |-> req[p].incidents, transactions |-> transactions])
    /\ UNCHANGED <<tz, tables, nextTxId, pre, started>>

\* SELECT COALESCE(SUM(amount), 0) FROM transactions, then res.json
DataBalance(p) ==
    /\ req[p].op = "data" /\ req[p].pc = "select_balance"
    /\ Respond(p, [status |-> 200, balance |-> SumAmounts(transactions),
                   pianoSessions |-> req[p].pianoSessions,
                   weeklyAwards |-> req[p].weeklyAwards, tests |-> req[p].tests,
                   incidents |-> req[p].incidents,
                   transactions |-> req[p].transactions])
    /\ UNCHANGED <<tz, tables, nextTxId, pre, started>>

(* --------------------------- specifications --------------------------- *)
Init ==
    /\ tz \in TimeZones
    /\ piano_sessions = EmptyBag
    /\ weekly_awards = EmptyBag
    /\ tests = EmptyBag
    /\ incidents = EmptyBag
    /\ transactions = {}
    /\ nextTxId = 1
    /\ req = [p \in Procs |-> NoReq]
    /\ resp = [p \in Procs |-> NoResp]
    /\ pre = [p \in Procs |-> NoSnap]
    /\ started = 0

Start(p) ==
    \/ PianoStart(p)
    \/ TestStart(p)
    \/ IncidentStart(p)
    \/ DeleteStart(p)
    \/ ResetStart(p)
    \/ DataStart(p)

Step(p) ==
    \/ PianoInsertSession(p) \/ PianoSumMinutes(p) \/ PianoAwardCheck(p)
    \/ PianoInsertAward(p) \/ PianoInsertTx(p)
    \/ TestInsertTest(p) \/ TestInsertTx(p)
    \/ IncidentInsertIncident(p) \/ IncidentInsertTx(p)
    \/ DeleteSelectTx(p) \/ DeleteDeleteAward(p) \/ DeleteDeleteTx(p)
    \/ ResetTransactions(p) \/ ResetPianoSessions(p) \/ ResetWeeklyAwards(p)
    \/ ResetTests(p) \/ ResetIncidents(p)
    \/ DataPianoSessions(p) \/ DataWeeklyAwards(p) \/ DataTests(p)
    \/ DataIncidents(p) \/ DataTransactions(p) \/ DataBalance(p)

\* Requests one at a time: a request starts only when none is in flight, and
\* the tables as they were at that moment are remembered for its outcome.
StartAlone(p) ==
    /\ p = 1
    /\ \A q \in Procs : Idle(q)
    /\ Start(p)
    /\ pre' = [pre EXCEPT ![p] = Snapshot]

NextSeq == \E p \in Procs : StartAlone(p) \/ Step(p)
SpecSeq == Init /\ [][NextSeq]_vars

\* Requests interleaved at every storage call.
StartAny(p) == Start(p) /\ pre' = pre

Next == \E p \in Procs : StartAny(p) \/ Step(p)
Spec == Init /\ [][Next]_vars

\* Piano-log requests only, interleaved at every storage call.
PianoStep(p) ==
    \/ PianoInsertSession(p) \/ PianoSumMinutes(p) \/ PianoAwardCheck(p)
    \/ PianoInsertAward(p) \/ PianoInsertTx(p)

NextPiano == \E p \in Procs : (PianoStart(p) /\ pre' = pre) \/ PianoStep(p)
SpecPiano == Init /\ [][NextPiano]_vars

(* ------------------------- vocabulary of the claims ------------------- *)
Done(p, op) == req[p].op = op /\ req[p].pc = "done"
AllIdle == \A p \in Procs : Idle(p)

PositivePiano(T) == {t \in T : t.type = "piano" /\ t.amount > 0}

\* The Monday on or before a day, and the Mondays the model's days fall near.
MondayOf(d) == d - (d % 7)
Mondays == {0, 7, 14}
InWeek(d, W) == W <= d /\ d <= W + 6

AwardsIn(W) == {w \in BagToSet(weekly_awards) : InWeek(w, W)}
RECURSIVE CountAwards(_)
CountAwards(S) ==
    IF S = {} THEN 0
    ELSE LET w == CHOOSE x \in S : TRUE
         IN CopiesIn(w, weekly_awards) + CountAwards(S \ {w})

\* What a request added to the transactions it started from.
NewTx(p) == transactions \ pre[p].transactions

\* Minutes of a bag of sessions dated in [lo, hi].
MinutesIn(B, lo, hi) ==
    SumOver({e \in BagToSet(B) : e.date >= lo /\ e.date <= hi}, B)

(* ------------------------------- C1 ----------------------------------- *)
\* C1: in every state reached by requests run one at a time, each
\* Monday-Sunday week holds at most one WeeklyAward and at most one positive
\* piano transaction dated within it.
C1_OnePerMondayWeek ==
    \A W \in Mondays :
        /\ CountAwards(AwardsIn(W)) <= 1
        /\ Cardinality({t \in PositivePiano(transactions) : InWeek(t.date, W)}) <= 1

(* ------------------------------- C2 ----------------------------------- *)
\* C2: with piano-log requests interleaved at every storage call, a week
\* (the week_start the requests compute) never holds more than one
\* WeeklyAward nor more than one +50 transaction, and a request that ended
\* in an error lost the award insert to a row that is there.
WeekStartOfLogged(date) == getWeekStart(DateFromString(date))

C3_AwardIffTransaction ==
    AllIdle =>
        \A W \in Mondays :
            BagIn(W, weekly_awards)
                <=> (\E t \in PositivePiano(transactions) : InWeek(t.date, W))

C5_DeleteThenReaward ==
    \A p \in Procs :
        /\ Done(p, "delete") /\ pre[p].taken /\ resp[p].status = 200 =>
              \A t \in PositivePiano(pre[p].transactions) :
                  t.id = req[p].id =>
                      /\ t \notin transactions
                      /\ \A w \in BagToSet(weekly_awards) : ~InWeek(t.date, w)
        /\ Done(p, "piano") /\ pre[p].taken /\ req[p].weekMinutes >= 150
              /\ (\A t \in PositivePiano(pre[p].transactions) :
                      MondayOf(t.date) # MondayOf(req[p].date)) =>
              /\ resp[p].status = 200 /\ resp[p].awarded
              /\ Cardinality(PositivePiano(NewTx(p))) = 1
              /\ BagIn(MondayOf(req[p].date), weekly_awards)

(* ------------------------------- C6 ----------------------------------- *)
\* C6: the balance of a read-all response is the sum of the amounts of the
\* transactions listed in that response, whatever runs concurrently.
C6_BalanceMatchesListing ==
    \A p \in Procs :
        Done(p, "data") => resp[p].balance = SumAmounts(resp[p].transactions)

(* ------------------------------- C7 ----------------------------------- *)
\* C7: a test-log request with max_score > 0 is awarded iff
\* 100*score >= 95*max_score; the TestRecord is stored with that flag; one
\* transaction (test, +100) is added when awarded and none otherwise.
C7_TestRule ==
    \A p \in Procs :
        Done(p, "test") /\ pre[p].taken /\ req[p].maxScore > 0 =>
            LET award == 100 * req[p].score >= 95 * req[p].maxScore
            IN /\ resp[p].status = 200
               /\ resp[p].awarded = award
               /\ tests = BagAdd(pre[p].tests,
                      [date |-> req[p].date, subject |-> req[p].subject,
                       score |-> req[p].score, max_score |-> req[p].maxScore,
                       awarded |-> award])
               /\ pre[p].transactions \subseteq transactions
               /\ award => /\ Cardinality(NewTx(p)) = 1
                           /\ \A t \in NewTx(p) : t.type = "test" /\ t.amount = 100
               /\ ~award => transactions = pre[p].transactions

\* A test exactly on the threshold, awarded.
C7_WitnessThreshold ==
    \E p \in Procs :
        /\ Done(p, "test") /\ pre[p].taken
        /\ 100 * req[p].score = 95 * req[p].maxScore /\ req[p].maxScore > 0
        /\ resp[p].awarded
        /\ Cardinality(NewTx(p)) = 1

(* ------------------------------- C8 ----------------------------------- *)
\* C8: a test-log request with max_score = 0 ends in an error: no award is
\* reported and no +100 transaction is added.
C8_ZeroMaxScoreFails ==
    \A p \in Procs :
        Done(p, "test") /\ pre[p].taken /\ req[p].maxScore = 0 =>
            /\ resp[p].status = 500
            /\ transactions = pre[p].transactions

(* ------------------------------- C9 ----------------------------------- *)
\* C9: every incident-log request adds exactly one Incident and exactly one
\* transaction (incident, -50), so the balance drops by exactly 50; the
\* description is "Incident: <note>" for a non-empty note and
\* "Crying incident" otherwise.
C9_IncidentAlwaysPenalizes ==
    \A p \in Procs :
        Done(p, "incident") /\ pre[p].taken =>
            LET hasNote == req[p].note \notin {Undefined, ""}
            IN /\ resp[p].status = 200
               /\ incidents = BagAdd(pre[p].incidents,
                      [date |-> req[p].date,
                       note |-> IF hasNote THEN req[p].note ELSE ""])
               /\ pre[p].transactions \subseteq transactions
               /\ Cardinality(NewTx(p)) = 1
               /\ \A t \in NewTx(p) :
                      /\ t.type = "incident" /\ t.amount = -50
                      /\ t.date = req[p].date
                      /\ t.description = IF hasNote
                                         THEN <<"Incident: ", <<>>, req[p].note>>
                                         ELSE <<"Crying incident", <<>>, "">>
               /\ SumAmounts(transactions) = SumAmounts(pre[p].transactions) - 50

\* A noted incident on a date that already had one.
C9_WitnessRepeated ==
    \E p \in Procs :
        /\ Done(p, "incident") /\ pre[p].taken
        /\ req[p].note = "meltdown"
        /\ \E i \in BagToSet(pre[p].incidents) : i.date = req[p].date
        /\ SumAmounts(transactions) = -100

(* ------------------------------- C10 ---------------------------------- *)
\* C10: a delete-transaction request whose id matches no transaction ends
\* with NotFound and leaves the five collections unchanged.
C10_DeleteUnknownId ==
    \A p \in Procs :
        Done(p, "delete") /\ pre[p].taken
            /\ (\A t \in pre[p].transactions : t.id # req[p].id) =>
            /\ resp[p].status = 404
            /\ piano_sessions = pre[p].piano_sessions
            /\ weekly_awards = pre[p].weekly_awards
            /\ tests = pre[p].tests
            /\ incidents = pre[p].incidents
            /\ transactions = pre[p].transactions

\* An unknown id named while transactions exist.
C10_WitnessUnknown ==
    \E p \in Procs :
        /\ Done(p, "delete") /\ pre[p].taken
        /\ resp[p].status = 404
        /\ transactions # {}

(* ------------------------------- C11 ---------------------------------- *)
\* C11: after a reset request that ran with no other request in flight, the
\* five collections are empty and the balance is 0, whatever was there.
C11_ResetEmptiesAll ==
    \A p \in Procs :
        Done(p, "reset") /\ pre[p].taken =>
            /\ resp[p].status = 200
            /\ piano_sessions = EmptyBag
            /\ weekly_awards = EmptyBag
            /\ tests = EmptyBag
            /\ incidents = EmptyBag
            /\ transactions = {}
            /\ SumAmounts(transactions) = 0

\* A reset of a state holding an awarded week and a non-zero balance.
C11_WitnessAfterAward ==
    \E p \in Procs :
        /\ Done(p, "reset") /\ pre[p].taken
        /\ pre[p].weekly_awards # EmptyBag
        /\ pre[p].piano_sessions # EmptyBag
        /\ SumAmounts(pre[p].transactions) # 0
        /\ transactions = {}

(* ------------------------------- C12 ---------------------------------- *)
\* Piano-log requests one at a time, on days around two week boundaries: a
\* Sunday, the Monday after it, the Sunday that ends that week and the
\* Monday after.
WeekDateInputs == {6, 7, 13, 14}

PianoStartAnyDay(p) ==
    \E date \in WeekDateInputs, minutes \in MinuteInputs :
        /\ Begin(p, [op |-> "piano", pc |-> "insert_session", date |-> date,
                     minutes |-> minutes])
        /\ UNCHANGED <<tz, tables, nextTxId>>

StartAloneAnyDay(p) ==
    /\ p = 1
    /\ \A q \in Procs : Idle(q)
    /\ PianoStartAnyDay(p)
    /\ pre' = [pre EXCEPT ![p] = Snapshot]

NextWeek == \E p \in Procs : StartAloneAnyDay(p) \/ PianoStep(p)
SpecWeek == Init /\ [][NextWeek]_vars

\* C12: week_start is the Monday on or before the date (a Sunday maps to the
\* Monday six days earlier, a Monday to itself), and a piano-log request
\* sums exactly the sessions dated in [week_start, week_start+6]: the Sunday
\* before and the Monday after never count.
C12_MondayToSundayWeek ==
    \A p \in Procs :
        Done(p, "piano") =>
            LET monday == MondayOf(req[p].date)
            IN /\ req[p].weekStart = monday
               /\ req[p].weekMinutes =
                      MinutesIn(piano_sessions, monday, monday + 6)
               /\ \A w \in BagToSet(weekly_awards) : w % 7 = 0

(* ------------------------------- C13 ---------------------------------- *)
\* The tables after one piano-log request {date: 7, minutes: 150} was served
\* alone on the empty tables: the week is awarded and transaction 1 is its
\* +50.
AwardedTables ==
    /\ piano_sessions = SetToBag({[date |-> 7, minutes |-> 150]})
    /\ weekly_awards = SetToBag({getWeekStart(DateFromString(7))})
    /\ tests = EmptyBag
    /\ incidents = EmptyBag
    /\ transactions = {[id |-> 1, date |-> 7, type |-> "piano", amount |-> PianoReward,
                        description |-> Description("Weekly piano goal met!",
                                                    <<150>>, "")]}
    /\ nextTxId = 2

InitAwarded ==
    /\ tz \in TimeZones
    /\ AwardedTables
    /\ req = [p \in Procs |-> NoReq]
    /\ resp = [p \in Procs |-> NoResp]
    /\ pre = [p \in Procs |-> NoSnap]
    /\ started = 0

DeleteStep(p) == DeleteSelectTx(p) \/ DeleteDeleteAward(p) \/ DeleteDeleteTx(p)

\* Piano-log and delete-transaction requests interleaved at every storage
\* call, from an awarded week.
NextPianoDelete ==
    \E p \in Procs :
        \/ (PianoStart(p) /\ pre' = pre)
        \/ (DeleteStart(p) /\ pre' = pre)
        \/ PianoStep(p)
        \/ DeleteStep(p)
SpecPianoDelete == InitAwarded /\ [][NextPianoDelete]_vars

\* C13: under any interleaving of piano-log and delete-transaction requests
\* (two deletes of one id included), once all requests have finished each
\* week has at most one positive piano transaction and a WeeklyAward exists
\* for a week iff a positive piano transaction dated in it exists.  Stated
\* for a server in UTC, where the week of a date is its Monday-Sunday week.
C13_NoOtherHazard ==
    tz = 0 /\ AllIdle =>
        \A W \in Mondays :
            /\ Cardinality({t \in PositivePiano(transactions) : InWeek(t.date, W)}) <= 1
            /\ BagIn(W, weekly_awards)
                   <=> (\E t \in PositivePiano(transactions) : InWeek(t.date, W))

(* ------------------------------- C14 ---------------------------------- *)
\* The INSERT INTO weekly_awards rejects for lack of storage (the store is
\* unreachable): nothing is written, the catch logs the error and answers
\* 500.  The calls before it are taken to succeed, as the claim supposes.
PianoInsertAwardFails(p) ==
    /\ req[p].op = "piano" /\ req[p].pc = "insert_award"
    /\ Respond(p, [status |-> 500, error |-> "Failed to log piano session",
                   logged |-> req[p].pc])
    /\ UNCHANGED <<tz, tables, nextTxId, pre, started>>

\* Piano-log requests of one day, interleaved at every storage call; the
\* award insert may fail.
OneDayInputs == {7}

PianoStartOneDay(p) ==
    \E date \in OneDayInputs, minutes \in MinuteInputs :
        /\ Begin(p, [op |-> "piano", pc |-> "insert_session", date |-> date,
                     minutes |-> minutes])
        /\ UNCHANGED <<tz, tables, nextTxId>>

NextPianoFail ==
    \E p \in Procs :
        \/ (PianoStartOneDay(p) /\ pre' = pre)
        \/ PianoStep(p)
        \/ PianoInsertAwardFails(p)
SpecPianoFail == Init /\ [][NextPianoFail]_vars

\* C14: when the session insert succeeded and the WeeklyAward insert fails
\* (storage failure or rejected by the uniqueness constraint), the request
\* ends there with an error response, its session stays recorded and it adds
\* no +50 transaction.
C14_SessionKeptWithoutReward ==
    [][\A p \in Procs :
          (/\ req[p].op = "piano" /\ req[p].pc = "insert_award"
           /\ req'[p] # req[p]
           /\ weekly_awards' = weekly_awards)
          => /\ req'[p].pc = "done"
             /\ resp'[p].status = 500
             /\ transactions' = transactions
             /\ BagIn([date |-> req[p].date, minutes |-> req[p].minutes],
                      piano_sessions')]_vars

\* A request whose award insert failed for lack of storage: answered 500, its
\* session is there, the week has neither award nor transaction.
C14_WitnessStorageFailure ==
    \E p \in Procs :
        /\ Done(p, "piano")
        /\ resp[p].status = 500
        /\ "logged" \in DOMAIN resp[p]
        /\ resp[p].logged = "insert_award"
        /\ BagIn([date |-> req[p].date, minutes |-> req[p].minutes], piano_sessions)
        /\ ~BagIn(req[p].weekStart, weekly_awards)
        /\ transactions = {}

(* ------------------------------- C15 ---------------------------------- *)
\* C15: a delete-transaction request that succeeds removes exactly the
\* transaction of the given id and, only when it is a positive piano
\* transaction, the WeeklyAward of that transaction's own week; every other
\* transaction, the awards of other weeks, the piano sessions, the incidents
\* and the test records stay as they were.
C15_DeleteFrame ==
    \A p \in Procs :
        Done(p, "delete") /\ pre[p].taken /\ resp[p].status = 200 =>
            \A t \in pre[p].transactions :
                t.id = req[p].id =>
                    /\ transactions = pre[p].transactions \ {t}
                    /\ piano_sessions = pre[p].piano_sessions
                    /\ tests = pre[p].tests
                    /\ incidents = pre[p].incidents
                    /\ \A w \in BagToSet(pre[p].weekly_awards) :
                           IF t.type = "piano" /\ t.amount > 0 /\ InWeek(t.date, w)
                           THEN ~BagIn(w, weekly_awards)
                           ELSE CopiesIn(w, weekly_awards)
                                    = CopiesIn(w, pre[p].weekly_awards)
                    /\ BagToSet(weekly_awards) \subseteq BagToSet(pre[p].weekly_awards)

(* ------------------------------- C16 ---------------------------------- *)
ResetStep(p) ==
    \/ ResetTransactions(p) \/ ResetPianoSessions(p) \/ ResetWeeklyAwards(p)
    \/ ResetTests(p) \/ ResetIncidents(p)

\* Piano-log, delete-transaction and reset requests interleaved at every
\* storage call.
NextPianoDeleteReset ==
    \E p \in Procs :
        \/ (PianoStart(p) /\ pre' = pre)
        \/ (DeleteStart(p) /\ pre' = pre)
        \/ (ResetStart(p) /\ pre' = pre)
        \/ PianoStep(p)
        \/ DeleteStep(p)
        \/ ResetStep(p)
SpecPianoDeleteReset == Init /\ [][NextPianoDeleteReset]_vars

\* C16: in every reachable state, with piano-log, delete-transaction and
\* reset requests interleaved and every session of positive length, each
\* positive piano transaction is dated in a week whose stored sessions total
\* at least 150 minutes.  Stated for a server in UTC, where the week of a date
\* is its Monday-Sunday week.
C16_RewardOnlyForMetGoal ==
    tz = 0 =>
        \A t \in PositivePiano(transactions) :
            MinutesIn(piano_sessions, MondayOf(t.date), MondayOf(t.date) + 6) >= 150

====
